---- MODULE Spec2Model ----
(***************************************************************************)
(* Model of condrove10/retryablehttp: the option-configured Client, its    *)
(* Do method (src/retryablehttp.go) and the retry loop BackoffPolicy       *)
(* (src/backoffpolicy/backoffpolicy.go).                                   *)
(*                                                                         *)
(* One call is modelled at the granularity of its observable steps: the    *)
(* construction of the client, the prologue of Do up to the entry of the   *)
(* retry loop, the invocation of the attempt function, the transport call, *)
(* the classification of its outcome, and the sleep after a failure.  The  *)
(* context is owned by the environment and may be cancelled between any    *)
(* two steps.  Durations are counted in units of time.Second.              *)
(*                                                                         *)
(* Further specifications look at one part each: SpecPolicy applies the    *)
(* default policy to a range of status codes, SpecFair runs a call of Do   *)
(* to its end under fair scheduling, SpecConc interleaves two calls of Do  *)
(* on one client, and SpecDuration computes the exponential wait in 64-bit *)
(* arithmetic, in nanoseconds.                                             *)
(***************************************************************************)
EXTENDS Integers, Sequences, FiniteSets, TLC

\* ----------------------------------------------------------------- bounds
MaxAttempts == 3      \* largest attempt budget enumerated below the limit
MaxDelay == 2         \* largest base delay enumerated
MaxBody == 2          \* longest request body enumerated
MaxOpts == 2          \* longest option list handed to New
MaxStatusMargin == 100 \* how far beyond 200 .. 299 the classified status codes range
MaxExponent == 64     \* the attempt indices 0 .. MaxExponent-1 have their wait computed
MaxConcAttempts == 2  \* largest attempt budget of a client shared by two calls
MaxConcBody == 1      \* longest request body of a call that runs beside another

\* ------------------------------------------------------ program constants
defaultAttemps == 10
defaultDelay == 1
AttemptsLimit == 100000
StatusOKLow == 200
StatusOKHigh == 299
DurationBits == 64    \* time.Duration is an int64

StrategyLinear == "Linear"
StrategyExponential == "Exponential"
defaultStrategy == StrategyLinear

\* ------------------------------------------------------------------ errors
\* An error is its chain of messages, outermost first; nil is the empty chain.
Nil == << >>
Err(msg, n) == << [msg |-> msg, n |-> n] >>
Wrap(msg, e) == Err(msg, 0) \o e
Unwrap(e) == IF e = Nil THEN Nil ELSE Tail(e)

\* ----------------------------------------------------------------- inputs
StrategyInputs == {StrategyLinear, StrategyExponential, "Bogus", ""}
Uint32AttemptInputs == (0 .. MaxAttempts) \cup {AttemptsLimit + 1}
IntAttemptInputs == (-1 .. MaxAttempts) \cup {AttemptsLimit + 1}
DelayInputs == 0 .. MaxDelay
BodyInputs == UNION { [1 .. n -> {7}] : n \in 0 .. MaxBody }
MethodInputs == {"GET", "POST", "BAD METHOD"}
URLInputs ==
    { [scheme |-> "http",  host |-> "example.com", raw |-> "http://example.com/x"],
      [scheme |-> "https", host |-> "example.com", raw |-> "https://example.com"],
      [scheme |-> "ftp",   host |-> "example.com", raw |-> "ftp://example.com"],
      [scheme |-> "http",  host |-> "",            raw |-> "http://"],
      [scheme |-> "",      host |-> "",            raw |-> "not a url"],
      [scheme |-> "",      host |-> "",            raw |-> ""] }
Statuses == {199, 200, 299, 300}
StubInputs == SUBSET (0 .. MaxAttempts)
CtxErrs == {"context canceled", "context deadline exceeded"}
\* the classifiers handed to WithPolicy: one that accepts every outcome, one that
\* rejects every outcome
PolicyInputs == {"acceptAll", "rejectAll"}

Options ==
    { [name |-> "WithAttempts", n |-> a, s |-> ""] : a \in Uint32AttemptInputs }
    \cup { [name |-> "WithDelay", n |-> d, s |-> ""] : d \in DelayInputs }
    \cup { [name |-> "WithStrategy", n |-> 0, s |-> st] : st \in StrategyInputs }
    \cup { [name |-> "WithPolicy", n |-> 0, s |-> p] : p \in PolicyInputs }
OptionLists == UNION { [1 .. k -> Options] : k \in 0 .. MaxOpts }

\* -------------------------------------------------------------- responses
NilResp == [kind |-> "nil", status |-> 0, attempt |-> 0]
EmptyResp == [kind |-> "empty", status |-> 0, attempt |-> 0]
RealResp(s, a) == [kind |-> "real", status |-> s, attempt |-> a]

VARIABLES
    pc,         \* position of the single flow of control
    mode,       \* "Do": BackoffPolicy runs Do's closure; "direct": a caller's stub
    client,     \* the Client built by New
    newErr,     \* the error New returned
    ctxErr,     \* c.context.Err(): "" while the context is live
    cfg,        \* strategy, attempts, delay as passed to BackoffPolicy
    attempt,    \* BackoffPolicy's loop variable
    err,        \* BackoffPolicy's err
    body,       \* Do's body argument
    bodyPos,    \* read position of req.Body
    resp,       \* Do's resp, assigned by the closure
    terr,       \* Do's err, assigned by the closure
    invoked,    \* history: attempt indices handed to the attempt function
    results,    \* history: whether each invocation returned nil
    slept,      \* history: durations handed to time.Sleep
    sent,       \* history: what the transport could read on each call
    waited,     \* time slept since the last invocation (or since entry)
    sawCancel,  \* a pre-attempt check of the closure found the context closed
    stub,       \* direct call: the attempt indices at which the caller's stub returns nil
    stale,      \* read position at which the latest retry found req.Body before its reset
    classified, \* history: how many times the call invoked c.policy
    sleepCtx,   \* c.context.Err() when the latest time.Sleep began
    ret,        \* what the call returned
    self,       \* which of two goroutines calling Do on the client is running
    peer,       \* the locals of the other goroutine's call
    dur         \* inputs and results of the 64-bit computation of the sleep argument

vars == << pc, mode, client, newErr, ctxErr, cfg, attempt, err, body, bodyPos,
           resp, terr, invoked, results, slept, sent, waited, sawCancel, stub, stale,
           classified, sleepCtx, ret, self, peer, dur >>

callVars == << cfg, attempt, err, body, bodyPos, resp, terr, invoked, results,
               slept, sent, waited, sawCancel, stub, stale, classified, sleepCtx >>

\* what the steps of a single call leave alone
auxVars == << self, peer, dur >>

\* ----------------------------------------------------------- construction
defaultClient ==
    [attempts |-> defaultAttemps, delay |-> defaultDelay, strategy |-> defaultStrategy,
     policy |-> "default"]

WithAttempts(c, attempts) ==
    IF attempts < 1
    THEN [c |-> c, err |-> Err("invalid atempts value", attempts)]
    ELSE [c |-> [c EXCEPT !.attempts = attempts], err |-> Nil]

WithDelay(c, delay) == [c |-> [c EXCEPT !.delay = delay], err |-> Nil]

WithStrategy(c, strategy) ==
    IF strategy \notin {StrategyExponential, StrategyLinear}
    THEN [c |-> c, err |-> Err("invalid backoff strategy", 0)]
    ELSE [c |-> [c EXCEPT !.strategy = strategy], err |-> Nil]

WithPolicy(c, policy) == [c |-> [c EXCEPT !.policy = policy], err |-> Nil]

ApplyOption(c, opt) ==
    CASE opt.name = "WithAttempts" -> WithAttempts(c, opt.n)
      [] opt.name = "WithDelay"    -> WithDelay(c, opt.n)
      [] opt.name = "WithStrategy" -> WithStrategy(c, opt.s)
      [] opt.name = "WithPolicy"   -> WithPolicy(c, opt.s)

RECURSIVE ApplyOptions(_, _)
ApplyOptions(c, opts) ==
    IF opts = << >> THEN [c |-> c, err |-> Nil]
    ELSE LET r == ApplyOption(c, Head(opts))
         IN  IF r.err # Nil THEN r ELSE ApplyOptions(r.c, Tail(opts))

\* ---------------------------------------------------------- BackoffPolicy
\* every strategy accepted
ValidateStrategy_AcceptAll(s) == Nil

ValidateStrategy(s) ==
    IF s \in {StrategyLinear, StrategyExponential} THEN Nil
    ELSE Err("invalid strategy", 0)

\* validator tag "required,gt=0,lte=100000" on the attempt count
ValidateAttempts(attempts) ==
    IF attempts # 0 /\ attempts > 0 /\ attempts <= AttemptsLimit THEN Nil
    ELSE Err("attempts validation", attempts)

\* the error BackoffPolicy returns before its loop, Nil when it enters the loop
BackoffEntry(strategy, attempts) ==
    IF ValidateStrategy(strategy) # Nil
    THEN Wrap("strategy validation failed", ValidateStrategy(strategy))
    ELSE IF ValidateAttempts(attempts) # Nil
    THEN Wrap("attempts validation failed", ValidateAttempts(attempts))
    ELSE Nil

\* the loop bound off by one
LoopCond_Inclusive(a, attempts) == a <= attempts

LoopCond(a, attempts) == a < attempts

\* the loop variable stepped by two
NextAttempt_Skip(a) == a + 2

\* attempt++
NextAttempt(a) == a + 1

\* the early return on success left out
Succeeded_Never(e) == FALSE

\* if err == nil { return nil }
Succeeded(e) == e = Nil

RECURSIVE Pow(_, _)
Pow(b, e) == IF e = 0 THEN 1 ELSE b * Pow(b, e - 1)

\* the exponent counted from the next attempt instead of the failed one
SleepDuration_NextAttempt(strategy, delay, a) ==
    IF strategy = StrategyExponential THEN delay * Pow(2, a + 1) ELSE delay

\* the Linear wait growing with the attempt index
SleepDuration_LinearGrowing(strategy, delay, a) ==
    IF strategy = StrategyExponential THEN delay * Pow(2, a) ELSE delay * (a + 1)

\* the argument of time.Sleep after the failure of attempt a
SleepDuration(strategy, delay, a) ==
    IF strategy = StrategyExponential THEN delay * Pow(2, a) ELSE delay

\* time.Sleep returns at once for a duration <= 0
Elapsed(d) == IF d > 0 THEN d ELSE 0

\* ---------------------------------------------------------------------- Do
\* only the "required" part of the url tag
ValidateURL_RequiredOnly(url) ==
    IF url.raw # "" THEN Nil ELSE Err("url validation", 0)

\* validator tag "required,http_url" on the url
ValidateURL(url) ==
    IF url.raw # "" /\ url.scheme \in {"http", "https"} /\ url.host # "" THEN Nil
    ELSE Err("url validation", 0)

\* the select before the retry loop left out
DoneSelected_Never(e) == FALSE

\* case <-c.context.Done(): the select before the retry loop
DoneSelected(e) == e # ""

\* the closure's context check left out
CtxErrNonNil_Never(e) == FALSE

\* if c.context.Err() != nil: the closure's check before each attempt
CtxErrNonNil(e) == e # ""

\* http.NewRequestWithContext rejects a method that is not a token
NewRequestErr(method) ==
    IF method \in {"GET", "POST"} THEN Nil ELSE Err("net/http: invalid method", 0)

\* the body reset on retries left out
ResetBody_Keep(a, pos) == pos

\* req.Body on entry of the transport call of attempt a
ResetBody(a, pos) == IF a > 0 THEN 0 ELSE pos

\* the upper bound of the accepted range excluded
defaultPolicy_ExclusiveUpper(r, e) ==
    IF e # Nil THEN Wrap("propagating error", e)
    ELSE IF r.status < StatusOKLow \/ r.status >= StatusOKHigh
    THEN Err("HTTP response status code outside boundaries", r.status)
    ELSE Nil

defaultPolicy(r, e) ==
    IF e # Nil THEN Wrap("propagating error", e)
    ELSE IF r.status < StatusOKLow \/ r.status > StatusOKHigh
    THEN Err("HTTP response status code outside boundaries", r.status)
    ELSE Nil

\* c.policy(resp, err): the default policy or the caller's classifier
ApplyPolicy(p, r, e) ==
    CASE p = "default"   -> defaultPolicy(r, e)
      [] p = "acceptAll" -> Nil
      [] p = "rejectAll" -> Err("rejected by policy", 0)

\* what httpClient.Do may return on attempt a
TransportOutcomes(a) ==
    { [resp |-> RealResp(s, a), err |-> Nil] : s \in Statuses }
    \cup { [resp |-> NilResp, err |-> Err("transport error", a)],
           [resp |-> RealResp(302, a), err |-> Err("redirect check failed", a)] }

\* the response variable of Do never assigned by the closure
Return_InitialResp(m, e, r) ==
    IF m = "direct" THEN [resp |-> NilResp, err |-> e]
    ELSE IF e # Nil THEN [resp |-> NilResp, err |-> Wrap("backoff policy expired", e)]
    ELSE [resp |-> EmptyResp, err |-> Nil]

\* the result of BackoffPolicy not examined: the last response returned with the error
Return_ExposeResp(m, e, r) ==
    IF m = "direct" THEN [resp |-> NilResp, err |-> e]
    ELSE IF e # Nil THEN [resp |-> r, err |-> Wrap("backoff policy expired", e)]
    ELSE [resp |-> r, err |-> Nil]

\* what the call returns once BackoffPolicy has returned e
Return(m, e, r) ==
    IF m = "direct" THEN [resp |-> NilResp, err |-> e]
    ELSE IF e # Nil THEN [resp |-> NilResp, err |-> Wrap("backoff policy expired", e)]
    ELSE [resp |-> r, err |-> Nil]

NoRet == [resp |-> NilResp, err |-> Nil]

\* the locals of a call of Do that has not begun
FreshCall ==
    [pc |-> "idle", mode |-> "none",
     cfg |-> [strategy |-> "", attempts |-> 0, delay |-> 0],
     attempt |-> 0, err |-> Nil, body |-> << >>, bodyPos |-> 0, resp |-> NilResp,
     terr |-> Nil, invoked |-> << >>, results |-> << >>, slept |-> << >>,
     sent |-> << >>, waited |-> 0, sawCancel |-> FALSE, stub |-> {}, stale |-> 0,
     classified |-> 0, sleepCtx |-> "", ret |-> NoRet]

\* ------------------------------------------------- 64-bit durations
\* An int64 is the sequence of its bits in two's complement, lowest bit first.
Zero64 == [i \in 1 .. DurationBits |-> 0]

\* the int64 of a number 0 <= n < 2^31
ToBits(n) == [i \in 1 .. DurationBits |-> IF i <= 31 THEN (n \div (2 ^ (i - 1))) % 2 ELSE 0]

\* 2^k as an int64, k < 63
OneBit(k) == [i \in 1 .. DurationBits |-> IF i = k + 1 THEN 1 ELSE 0]

MinInt64 == [i \in 1 .. DurationBits |-> IF i = DurationBits THEN 1 ELSE 0]

MaxInt64 == [i \in 1 .. DurationBits |-> IF i = DurationBits THEN 0 ELSE 1]

\* how many partial products x[i] * y[j] fall on bit k of the product
ColumnSum(x, y, k) == Cardinality({ i \in 1 .. k : x[i] = 1 /\ y[k + 1 - i] = 1 })

RECURSIVE MulFrom(_, _, _, _, _)
MulFrom(x, y, k, carry, acc) ==
    IF k > DurationBits THEN acc
    ELSE MulFrom(x, y, k + 1, (ColumnSum(x, y, k) + carry) \div 2,
                 Append(acc, (ColumnSum(x, y, k) + carry) % 2))

\* x * y in int64: the product modulo 2^64
Mul64(x, y) == MulFrom(x, y, 1, 0, << >>)

\* time.Duration(math.Pow(2, float64(a))): exact up to 2^62; from 2^63 on the
\* float64 is out of the range of int64 and the result of the conversion
\* depends on the implementation (the lowest int64 on amd64, the highest on arm64)
Pow2AsDuration(a) ==
    IF a < DurationBits - 1 THEN {OneBit(a)} ELSE {MinInt64, MaxInt64}

\* delay * time.Duration(math.Pow(2, float64(attempt))) with the factor f
ExponentialWait(delay, f) == Mul64(delay, f)

\* the base delays, in nanoseconds: 0, 1ns, 1ms, 1s (the default), 2s
DurationInputs == {0, 1, 1000000, 1000000000, 2000000000}

\* no wait is being computed
NoDur == [delay |-> << >>, attempt |-> 0, prev |-> << >>, cur |-> << >>]

\* no call has begun: the locals of Init
CallNotBegun ==
    /\ mode = "none"
    /\ newErr = Nil
    /\ ctxErr = ""
    /\ cfg = [strategy |-> "", attempts |-> 0, delay |-> 0]
    /\ attempt = 0
    /\ err = Nil
    /\ body = << >>
    /\ bodyPos = 0
    /\ resp = NilResp
    /\ terr = Nil
    /\ invoked = << >>
    /\ results = << >>
    /\ slept = << >>
    /\ sent = << >>
    /\ waited = 0
    /\ sawCancel = FALSE
    /\ stub = {}
    /\ stale = 0
    /\ classified = 0
    /\ sleepCtx = ""
    /\ ret = NoRet

\* -------------------------------------------------------------------- Init
Init ==
    /\ pc = "init"
    /\ mode = "none"
    /\ client = defaultClient
    /\ newErr = Nil
    /\ ctxErr = ""
    /\ cfg = [strategy |-> "", attempts |-> 0, delay |-> 0]
    /\ attempt = 0
    /\ err = Nil
    /\ body = << >>
    /\ bodyPos = 0
    /\ resp = NilResp
    /\ terr = Nil
    /\ invoked = << >>
    /\ results = << >>
    /\ slept = << >>
    /\ sent = << >>
    /\ waited = 0
    /\ sawCancel = FALSE
    /\ stub = {}
    /\ stale = 0
    /\ classified = 0
    /\ sleepCtx = ""
    /\ ret = NoRet
    /\ self = 1
    /\ peer = FreshCall
    /\ dur = NoDur

\* ----------------------------------------------------------------- actions
\* New(ctx, opts...): the options are applied in order, the first error ends it
New(opts) ==
    /\ pc = "init"
    /\ LET r == ApplyOptions(defaultClient, opts)
       IN  IF r.err # Nil
           THEN /\ pc' = "failed"
                /\ newErr' = Wrap("failed to set optional client field", r.err)
                /\ UNCHANGED client
           ELSE /\ pc' = "idle"
                /\ client' = r.c
                /\ UNCHANGED newErr
    /\ UNCHANGED << mode, ctxErr, ret >>
    /\ UNCHANGED callVars
    /\ UNCHANGED auxVars

\* the environment cancels the context, or its deadline passes
Cancel(cause) ==
    /\ ctxErr = ""
    /\ ctxErr' = cause
    /\ UNCHANGED << pc, mode, client, newErr, ret >>
    /\ UNCHANGED callVars
    /\ UNCHANGED auxVars

\* entry of the retry loop, shared by Do and a direct call of BackoffPolicy
EnterLoop(m, strategy, attempts, delay, b, r, fn) ==
    /\ mode' = m
    /\ stub' = fn
    /\ cfg' = [strategy |-> strategy, attempts |-> attempts, delay |-> delay]
    /\ body' = b
    /\ resp' = r
    /\ IF BackoffEntry(strategy, attempts) # Nil
       THEN /\ pc' = "done"
            /\ ret' = Return(m, BackoffEntry(strategy, attempts), r)
       ELSE /\ pc' = "loop"
            /\ UNCHANGED ret
    /\ UNCHANGED << attempt, err, bodyPos, terr, invoked, results, slept, sent,
                    waited, sawCancel, stale, classified, sleepCtx >>

\* Client.Do up to the call of BackoffPolicy and BackoffPolicy up to its loop
Do(url, method, b) ==
    /\ pc = "idle"
    /\ UNCHANGED << client, newErr, ctxErr >>
    /\ UNCHANGED auxVars
    /\ IF ValidateURL(url) # Nil
       THEN /\ pc' = "done"
            /\ mode' = "Do"
            /\ ret' = [resp |-> NilResp,
                       err |-> Wrap("url validation failed", ValidateURL(url))]
            /\ UNCHANGED callVars
       ELSE IF NewRequestErr(method) # Nil
       THEN /\ pc' = "done"
            /\ mode' = "Do"
            /\ ret' = [resp |-> NilResp,
                       err |-> Wrap("failed to create http request", NewRequestErr(method))]
            /\ UNCHANGED callVars
       ELSE IF DoneSelected(ctxErr)
       THEN /\ pc' = "done"
            /\ mode' = "Do"
            /\ ret' = [resp |-> NilResp,
                       err |-> Wrap("context closed", Err(ctxErr, 0))]
            /\ UNCHANGED callVars
       ELSE EnterLoop("Do", client.strategy, client.attempts, client.delay, b,
                      EmptyResp, {})

\* a caller's own call of backoffpolicy.BackoffPolicy with a stub attempt function
BackoffPolicy(strategy, attempts, delay, fn) ==
    /\ pc = "init"
    /\ UNCHANGED << client, newErr, ctxErr >>
    /\ UNCHANGED auxVars
    /\ EnterLoop("direct", strategy, attempts, delay, << >>, NilResp, fn)

\* loop head with attempts left, Do's closure: the context check, then the body reset
InvokeClosure ==
    /\ pc = "loop"
    /\ mode = "Do"
    /\ LoopCond(attempt, cfg.attempts)
    /\ invoked' = Append(invoked, [attempt |-> attempt, waited |-> waited])
    /\ waited' = 0
    /\ IF CtxErrNonNil(ctxErr)
       THEN /\ err' = Wrap("retryable http call context closed", Err(ctxErr, 0))
            /\ results' = Append(results, FALSE)
            /\ sawCancel' = TRUE
            /\ pc' = "sleep"
            /\ UNCHANGED << bodyPos, stale >>
       ELSE /\ bodyPos' = ResetBody(attempt, bodyPos)
            /\ stale' = bodyPos
            /\ pc' = "transport"
            /\ UNCHANGED << err, results, sawCancel >>
    /\ UNCHANGED << mode, client, newErr, ctxErr, cfg, attempt, body, resp, terr,
                    slept, sent, stub, classified, sleepCtx, ret >>
    /\ UNCHANGED auxVars

\* resp, err = c.httpClient.Do(req): the transport reads some of the body
Transport(out, n) ==
    /\ pc = "transport"
    /\ n \in 0 .. (Len(body) - bodyPos)
    /\ sent' = Append(sent, [attempt |-> attempt,
                             body |-> SubSeq(body, bodyPos + 1, Len(body))])
    /\ bodyPos' = bodyPos + n
    /\ resp' = out.resp
    /\ terr' = out.err
    /\ pc' = "classify"
    /\ UNCHANGED << mode, client, newErr, ctxErr, cfg, attempt, err, body, invoked,
                    results, slept, waited, sawCancel, stub, stale, classified, sleepCtx,
                    ret >>
    /\ UNCHANGED auxVars

\* return c.policy(resp, err), and BackoffPolicy's test of the result
Classify ==
    /\ pc = "classify"
    /\ classified' = classified + 1
    /\ LET e == ApplyPolicy(client.policy, resp, terr)
       IN  /\ err' = e
           /\ results' = Append(results, e = Nil)
           /\ IF Succeeded(e)
              THEN /\ pc' = "done"
                   /\ ret' = Return(mode, Nil, resp)
              ELSE /\ pc' = "sleep"
                   /\ UNCHANGED ret
    /\ UNCHANGED << mode, client, newErr, ctxErr, cfg, attempt, body, bodyPos, resp,
                    terr, invoked, slept, sent, waited, sawCancel, stub, stale, sleepCtx >>
    /\ UNCHANGED auxVars

\* the caller's stub attempt function
StubResult(fn, a) == IF a \in fn THEN Nil ELSE Err("attempt failed", a)

\* loop head with attempts left, a direct caller's stub: it fails or succeeds
InvokeStub ==
    /\ pc = "loop"
    /\ mode = "direct"
    /\ LoopCond(attempt, cfg.attempts)
    /\ invoked' = Append(invoked, [attempt |-> attempt, waited |-> waited])
    /\ waited' = 0
    /\ results' = Append(results, StubResult(stub, attempt) = Nil)
    /\ err' = StubResult(stub, attempt)
    /\ IF Succeeded(StubResult(stub, attempt))
       THEN /\ pc' = "done"
            /\ ret' = Return(mode, Nil, resp)
       ELSE /\ pc' = "sleep"
            /\ UNCHANGED ret
    /\ UNCHANGED << mode, client, newErr, ctxErr, cfg, attempt, body, bodyPos, resp,
                    terr, slept, sent, sawCancel, stub, stale, classified, sleepCtx >>
    /\ UNCHANGED auxVars

\* the switch after a failed attempt: time.Sleep is entered
Sleep ==
    /\ pc = "sleep"
    /\ IF cfg.strategy \in {StrategyExponential, StrategyLinear}
       THEN /\ slept' = Append(slept, SleepDuration(cfg.strategy, cfg.delay, attempt))
            /\ sleepCtx' = ctxErr
            /\ pc' = "sleeping"
            /\ UNCHANGED ret
       ELSE /\ pc' = "done"
            /\ ret' = Return(mode, Err("invalid backoff strategy", 0), resp)
            /\ UNCHANGED << slept, sleepCtx >>
    /\ UNCHANGED << mode, client, newErr, ctxErr, cfg, attempt, err, body, bodyPos, resp,
                    terr, invoked, results, sent, waited, sawCancel, stub, stale,
                    classified >>
    /\ UNCHANGED auxVars

\* time.Sleep returns when its whole duration has passed, and attempt++
Wake ==
    /\ pc = "sleeping"
    /\ waited' = waited + Elapsed(slept[Len(slept)])
    /\ attempt' = NextAttempt(attempt)
    /\ pc' = "loop"
    /\ UNCHANGED << mode, client, newErr, ctxErr, cfg, err, body, bodyPos, resp, terr,
                    invoked, results, slept, sent, sawCancel, stub, stale, classified,
                    sleepCtx, ret >>
    /\ UNCHANGED auxVars

\* loop head with no attempt left
Exhausted ==
    /\ pc = "loop"
    /\ ~LoopCond(attempt, cfg.attempts)
    /\ pc' = "done"
    /\ ret' = Return(mode, Wrap("backoff policy exhausted", err), resp)
    /\ UNCHANGED << mode, client, newErr, ctxErr >>
    /\ UNCHANGED callVars
    /\ UNCHANGED auxVars

Next ==
    \/ pc = "init" /\ \E opts \in OptionLists : New(opts)
    \/ \E cause \in CtxErrs : Cancel(cause)
    \/ pc = "idle" /\ \E url \in URLInputs, method \in MethodInputs, b \in BodyInputs :
          Do(url, method, b)
    \/ pc = "init" /\ \E s \in StrategyInputs, a \in IntAttemptInputs, d \in DelayInputs,
                           fn \in StubInputs : BackoffPolicy(s, a, d, fn)
    \/ InvokeClosure
    \/ pc = "transport" /\ \E out \in TransportOutcomes(attempt), n \in 0 .. MaxBody :
          Transport(out, n)
    \/ Classify
    \/ InvokeStub
    \/ Sleep
    \/ Wake
    \/ Exhausted

Spec == Init /\ [][Next]_vars

\* ------------------------------------------------ a call run to its end
\* the clients New builds from valid options, with budgets up to MaxAttempts
BuiltClients ==
    { [attempts |-> a, delay |-> d, strategy |-> s, policy |-> p] :
          a \in 1 .. MaxAttempts, d \in DelayInputs,
          s \in {StrategyLinear, StrategyExponential},
          p \in {"default"} \cup PolicyInputs }

\* New has returned a client and Do has not been called yet
InitFair ==
    /\ pc = "idle"
    /\ client \in BuiltClients
    /\ CallNotBegun
    /\ self = 1
    /\ peer = FreshCall
    /\ dur = NoDur

\* the steps of a call of Do that has entered the retry loop: the goroutine keeps
\* running, and every transport call, policy call and sleep returns
CallStep ==
    \/ InvokeClosure
    \/ pc = "transport" /\ \E out \in TransportOutcomes(attempt), n \in 0 .. MaxBody :
          Transport(out, n)
    \/ Classify
    \/ Sleep
    \/ Wake
    \/ Exhausted

NextFair ==
    \/ \E cause \in CtxErrs : Cancel(cause)
    \/ pc = "idle" /\ \E url \in URLInputs, method \in MethodInputs, b \in BodyInputs :
          Do(url, method, b)
    \/ CallStep

SpecFair == InitFair /\ [][NextFair]_vars /\ WF_vars(CallStep)

\* --------------------------------------- the exponential wait on its own
\* BackoffPolicy under the Exponential strategy with a base delay, before the
\* wait of attempt 0 is computed
InitDuration ==
    /\ pc = "init"
    /\ client = defaultClient
    /\ CallNotBegun
    /\ self = 1
    /\ peer = FreshCall
    /\ \E d \in DurationInputs :
          dur = [delay |-> ToBits(d), attempt |-> 0, prev |-> Zero64, cur |-> Zero64]

\* the argument of time.Sleep after the failure of attempt dur.attempt, and attempt++
ComputeWait(f) ==
    /\ dur.attempt < MaxExponent
    /\ f \in Pow2AsDuration(dur.attempt)
    /\ dur' = [dur EXCEPT !.prev = dur.cur,
                          !.cur = ExponentialWait(dur.delay, f),
                          !.attempt = NextAttempt(dur.attempt)]
    /\ UNCHANGED << pc, mode, client, newErr, ctxErr, ret, self, peer >>
    /\ UNCHANGED callVars

NextDuration == \E f \in {MinInt64, MaxInt64} \cup {OneBit(a) : a \in 0 .. MaxExponent} :
                    ComputeWait(f)

SpecDuration == InitDuration /\ [][NextDuration]_vars

\* ------------------------------------------- two calls on one client
\* the locals of the running call of Do
Locals ==
    [pc |-> pc, mode |-> mode, cfg |-> cfg, attempt |-> attempt, err |-> err,
     body |-> body, bodyPos |-> bodyPos, resp |-> resp, terr |-> terr,
     invoked |-> invoked, results |-> results, slept |-> slept, sent |-> sent,
     waited |-> waited, sawCancel |-> sawCancel, stub |-> stub, stale |-> stale,
     classified |-> classified, sleepCtx |-> sleepCtx, ret |-> ret]

\* a variable held in the Client, which every call would find as the last call left it
Own_Shared(mine, current) == current

\* a variable declared in Do (req, resp, err) or in BackoffPolicy (attempt, err):
\* each call finds in it what the call itself put there
Own(mine, current) == mine

\* the scheduler takes the running goroutine off and puts the other one on
Switch ==
    /\ pc \in {"idle", "loop", "transport", "classify", "sleep", "sleeping", "done"}
    /\ self' = 3 - self
    /\ peer' = Locals
    /\ pc' = peer.pc
    /\ mode' = peer.mode
    /\ cfg' = peer.cfg
    /\ attempt' = Own(peer.attempt, attempt)
    /\ err' = peer.err
    /\ body' = peer.body
    /\ bodyPos' = Own(peer.bodyPos, bodyPos)
    /\ resp' = Own(peer.resp, resp)
    /\ terr' = peer.terr
    /\ invoked' = peer.invoked
    /\ results' = peer.results
    /\ slept' = peer.slept
    /\ sent' = peer.sent
    /\ waited' = peer.waited
    /\ sawCancel' = peer.sawCancel
    /\ stub' = peer.stub
    /\ stale' = peer.stale
    /\ classified' = peer.classified
    /\ sleepCtx' = peer.sleepCtx
    /\ ret' = Own(peer.ret, ret)
    /\ UNCHANGED << client, newErr, ctxErr, dur >>

\* the clients the two calls share: the defaults with a budget up to MaxConcAttempts
ConcClients == { [defaultClient EXCEPT !.attempts = a] : a \in 1 .. MaxConcAttempts }

ConcURLs ==
    { [scheme |-> "http", host |-> "example.com", raw |-> "http://example.com/x"],
      [scheme |-> "",     host |-> "",            raw |-> "not a url"] }

ConcBodies == UNION { [1 .. n -> {7}] : n \in 0 .. MaxConcBody }

\* what the transport may return to call id on attempt a: the server's answers
\* to the two calls are told apart by their status codes
OwnStatuses(id) == {200 + id, 500 + id}

OwnOutcomes(id, a) ==
    { [resp |-> RealResp(s, a), err |-> Nil] : s \in OwnStatuses(id) }
    \cup { [resp |-> NilResp, err |-> Err("transport error", a)] }

InitConc ==
    /\ pc = "idle"
    /\ client \in ConcClients
    /\ CallNotBegun
    /\ self = 1
    /\ peer = FreshCall
    /\ dur = NoDur

NextConc ==
    \/ Cancel("context canceled")
    \/ pc = "idle" /\ \E url \in ConcURLs, b \in ConcBodies : Do(url, "POST", b)
    \/ InvokeClosure
    \/ pc = "transport" /\ \E out \in OwnOutcomes(self, attempt), n \in 0 .. MaxConcBody :
          Transport(out, n)
    \/ Classify
    \/ Sleep
    \/ Wake
    \/ Exhausted
    \/ Switch

SpecConc == InitConc /\ [][NextConc]_vars

\* ------------------------------------------------- the policy on its own
\* the status codes and transport results handed to the policy
StatusInputs == (StatusOKLow - MaxStatusMargin) .. (StatusOKHigh + MaxStatusMargin)

PolicyOutcomes ==
    { [resp |-> RealResp(s, 0), err |-> Nil] : s \in StatusInputs }
    \cup { [resp |-> RealResp(s, 0), err |-> Err("redirect check failed", 0)] :
              s \in StatusInputs }
    \cup { [resp |-> NilResp, err |-> Err("transport error", 0)] }

\* a call of Do on a default client whose first transport call has just returned
InitPolicy ==
    /\ pc = "classify"
    /\ mode = "Do"
    /\ client = defaultClient
    /\ newErr = Nil
    /\ ctxErr = ""
    /\ cfg = [strategy |-> defaultStrategy, attempts |-> defaultAttemps,
              delay |-> defaultDelay]
    /\ attempt = 0
    /\ err = Nil
    /\ body = << >>
    /\ bodyPos = 0
    /\ \E out \in PolicyOutcomes : resp = out.resp /\ terr = out.err
    /\ invoked = << [attempt |-> 0, waited |-> 0] >>
    /\ results = << >>
    /\ slept = << >>
    /\ sent = << [attempt |-> 0, body |-> << >>] >>
    /\ waited = 0
    /\ sawCancel = FALSE
    /\ stub = {}
    /\ stale = 0
    /\ classified = 0
    /\ sleepCtx = ""
    /\ ret = NoRet
    /\ self = 1
    /\ peer = FreshCall
    /\ dur = NoDur

NextPolicy == Classify

SpecPolicy == InitPolicy /\ [][NextPolicy]_vars

\* ---------------------------------------------------------- shared notions
Recognized(s) == s = "Linear" \/ s = "Exponential"

\* the call was a direct call of BackoffPolicy and it has returned
DirectDone == pc = "done" /\ mode = "direct"

\* the attempt function was invoked with exactly the indices 0 .. n-1, in order
InvokedUpTo(n) ==
    /\ Len(invoked) = n
    /\ \A i \in 1 .. Len(invoked) : invoked[i].attempt = i - 1

ExhaustionOf(e) == << [msg |-> "backoff policy exhausted", n |-> 0] >> \o e

SetMin(S) == CHOOSE x \in S : \A y \in S : x <= y

\* -------------------------------------------------------------------- C1
\* C1 as stated: for every attempts = N >= 1, a recognized strategy and an attempt
\* function that fails on every invocation, BackoffPolicy invokes it exactly N
\* times, with the indices 0 .. N-1, and returns an exhaustion error wrapping the
\* error of invocation N-1.
C1_ExhaustsEveryBudget ==
    (DirectDone /\ Recognized(cfg.strategy) /\ cfg.attempts >= 1 /\ stub = {})
        => /\ InvokedUpTo(cfg.attempts)
           /\ ret.err = ExhaustionOf(<< [msg |-> "attempt failed", n |-> cfg.attempts - 1] >>)

\* C1 amended: the same for every attempts = N with 1 <= N <= 100000, the largest
\* attempt count BackoffPolicy accepts.
C1_ExhaustsAcceptedBudget ==
    (DirectDone /\ Recognized(cfg.strategy) /\ cfg.attempts >= 1
                /\ cfg.attempts <= 100000 /\ stub = {})
        => /\ InvokedUpTo(cfg.attempts)
           /\ \A i \in 1 .. Len(results) : ~results[i]
           /\ ret.err = ExhaustionOf(<< [msg |-> "attempt failed", n |-> cfg.attempts - 1] >>)
           /\ Unwrap(ret.err) = err

C1_Witness ==
    /\ DirectDone /\ cfg.strategy = "Exponential" /\ cfg.attempts = MaxAttempts
    /\ stub = {} /\ Len(invoked) = MaxAttempts
    /\ ret.err = ExhaustionOf(<< [msg |-> "attempt failed", n |-> MaxAttempts - 1] >>)

\* -------------------------------------------------------------------- C2
\* C2 as stated: for every attempts = N >= 1 and an attempt function that fails on
\* attempts 0 .. k-1 and succeeds on attempt k < N, BackoffPolicy makes exactly k+1
\* invocations and returns success at once: no wait follows the successful attempt
\* and no later index is invoked.
C2_StopsAtFirstSuccess ==
    (DirectDone /\ Recognized(cfg.strategy) /\ cfg.attempts >= 1
                /\ stub # {} /\ SetMin(stub) < cfg.attempts)
        => /\ InvokedUpTo(SetMin(stub) + 1)
           /\ ret.err = << >>
           /\ Len(slept) = SetMin(stub)
           /\ waited = 0

\* C2 amended: the same for every attempts = N with 1 <= N <= 100000; in no state
\* of such a run has an index after k been invoked or a wait followed attempt k.
C2_StopsAtFirstSuccessAccepted ==
    (mode = "direct" /\ Recognized(cfg.strategy) /\ cfg.attempts >= 1
                     /\ cfg.attempts <= 100000
                     /\ stub # {} /\ SetMin(stub) < cfg.attempts)
        => /\ \A i \in 1 .. Len(invoked) : invoked[i].attempt <= SetMin(stub)
           /\ Len(slept) <= SetMin(stub)
           /\ pc = "done" => /\ InvokedUpTo(SetMin(stub) + 1)
                             /\ ret.err = << >>
                             /\ Len(slept) = SetMin(stub)
                             /\ waited = 0

C2_Witness ==
    /\ DirectDone /\ cfg.attempts = MaxAttempts /\ stub = {MaxAttempts - 1}
    /\ Len(invoked) = MaxAttempts /\ ret.err = << >>
    /\ Len(slept) = MaxAttempts - 1

\* -------------------------------------------------------------------- C3
\* C3 as stated: BackoffPolicy waits only between attempts: the failed attempt
\* attempts-1 is followed by no wait, and a run that exhausts N attempts has
\* performed exactly N-1 waits when it returns the exhaustion error.
\* (a wait is a sleep of positive duration: time.Sleep(0) returns at once)
WaitsPerformed == Cardinality({ i \in 1 .. Len(slept) : slept[i] > 0 })

C3_WaitsOnlyBetweenAttempts ==
    /\ Len(invoked) > 0 => WaitsPerformed <= cfg.attempts - 1
    /\ (pc = "done" /\ Len(invoked) > 0 /\ Len(invoked) = cfg.attempts
           /\ ret.err # << >> /\ cfg.delay > 0)
           => WaitsPerformed = cfg.attempts - 1

\* -------------------------------------------------------------------- C4
\* the claimed wait before attempt i: 0 for i = 0, baseDelay under Linear,
\* baseDelay doubled i-1 times under Exponential
RECURSIVE C4_Doubled(_, _)
C4_Doubled(d, times) == IF times <= 0 THEN d ELSE C4_Doubled(d + d, times - 1)

C4_ClaimedWait(strategy, delay, i) ==
    IF i = 0 THEN 0
    ELSE IF strategy = "Linear" THEN delay
    ELSE C4_Doubled(delay, i - 1)

\* C4: the wait performed before attempt i is zero for i = 0 and, for i >= 1,
\* baseDelay under Linear and baseDelay * 2^(i-1) under Exponential; it is the
\* duration of the one sleep that precedes the attempt.
C4_WaitBeforeAttempt ==
    /\ \A i \in 1 .. Len(invoked) :
          invoked[i].waited = C4_ClaimedWait(cfg.strategy, cfg.delay, invoked[i].attempt)
    /\ \A i \in 1 .. Len(slept) :
          i + 1 <= Len(invoked) =>
              slept[i] = C4_ClaimedWait(cfg.strategy, cfg.delay, invoked[i + 1].attempt)

C4_Witness ==
    /\ cfg.strategy = "Exponential" /\ cfg.delay = MaxDelay /\ MaxDelay > 0
    /\ Len(invoked) = MaxAttempts
    /\ invoked[1].waited = 0
    /\ invoked[MaxAttempts].waited = MaxDelay * (2 ^ (MaxAttempts - 2))

\* ------------------------------------------------------------- C5 .. C10
AbsoluteHTTPURL(url) == (url.scheme = "http" \/ url.scheme = "https") /\ url.host # ""

MethodAccepted(method) == method = "GET" \/ method = "POST"

NothingAttempted == invoked = << >> /\ sent = << >> /\ slept = << >>

NothingAttemptedNext == invoked' = << >> /\ sent' = << >> /\ slept' = << >>

\* -------------------------------------------------------------------- C5
\* C5 as stated: if the context is already cancelled or expired when Do is called
\* with a valid URL, Do returns a context-closed error and a nil response, and
\* no transport call, attempt or wait takes place.
C5_ClosedContextBeforeDo ==
    [][pc = "idle" => \A url \in URLInputs, method \in MethodInputs, b \in BodyInputs :
          (Do(url, method, b) /\ AbsoluteHTTPURL(url) /\ ctxErr # "")
              => /\ pc' = "done"
                 /\ ret'.resp.kind = "nil"
                 /\ ret'.err = << [msg |-> "context closed", n |-> 0],
                                  [msg |-> ctxErr, n |-> 0] >>
                 /\ NothingAttemptedNext]_vars

\* C5 amended: the same when Do is called with a valid URL and a method from
\* which the request can be built; with a method http.NewRequestWithContext
\* rejects, Do returns the request-construction error instead (still with a nil
\* response and without any transport call, attempt or wait).
C5_ClosedContextBeforeDoBuilt ==
    [][pc = "idle" => \A url \in URLInputs, method \in MethodInputs, b \in BodyInputs :
          (Do(url, method, b) /\ AbsoluteHTTPURL(url) /\ ctxErr # "")
              => /\ pc' = "done"
                 /\ ret'.resp.kind = "nil"
                 /\ NothingAttemptedNext
                 /\ ret'.err = IF MethodAccepted(method)
                               THEN << [msg |-> "context closed", n |-> 0],
                                       [msg |-> ctxErr, n |-> 0] >>
                               ELSE << [msg |-> "failed to create http request", n |-> 0],
                                       [msg |-> "net/http: invalid method", n |-> 0] >>]_vars

C5_Witness ==
    /\ pc = "done" /\ mode = "Do" /\ ctxErr = "context deadline exceeded"
    /\ ret.resp.kind = "nil"
    /\ ret.err = << [msg |-> "context closed", n |-> 0],
                    [msg |-> "context deadline exceeded", n |-> 0] >>
    /\ NothingAttempted

\* -------------------------------------------------------------------- C6
\* a step in which Do's closure is entered for the next attempt
PreAttemptCheck == mode = "Do" /\ pc = "loop" /\ Len(invoked') = Len(invoked) + 1

\* C6: the context is checked before every attempt: an attempt whose check
\* happens after the context was cancelled does not reach the transport, and
\* neither does any later attempt of the call.
C6_NoTransportAfterObservedCancel ==
    [][/\ (PreAttemptCheck /\ ctxErr # "")
              => (pc' # "transport" /\ sent' = sent /\ sawCancel')
       /\ sawCancel => (sent' = sent /\ pc' \notin {"transport", "classify"})]_vars

C6_Witness ==
    /\ sawCancel /\ mode = "Do"
    /\ Len(sent) = 1
    /\ Len(invoked) = 3

\* -------------------------------------------------------------------- C7
\* C7 as stated: once a pre-attempt check of Do finds the context cancelled, Do
\* fails at once with the context-closed error: the attempt function is not
\* invoked again and no further backoff wait is performed.
C7_ObservedCancelIsTerminal ==
    [][sawCancel => (invoked' = invoked /\ slept' = slept)]_vars

\* -------------------------------------------------------------------- C8
\* C8: on every attempt of Do the transport is handed a body positioned at the
\* start of the caller's bytes: what it can read is the whole original body,
\* whatever the previous attempt consumed.
C8_BodyFromStart ==
    /\ \A i \in 1 .. Len(sent) : sent[i].body = body
    /\ pc = "transport" => bodyPos = 0

C8_Witness ==
    /\ pc = "classify" /\ attempt >= 1
    /\ body # << >> /\ stale = Len(body)
    /\ Len(sent) = attempt + 1
    /\ sent[Len(sent)].attempt = attempt
    /\ sent[Len(sent)].body = body

\* -------------------------------------------------------------------- C9
\* C9: if the URL is not a valid absolute HTTP(S) URL, Do returns the
\* URL-validation error and a nil response before any network activity: no
\* transport call, no entry of the backoff loop, no attempt, no wait.
C9_InvalidURLFailsFast ==
    [][pc = "idle" => \A url \in URLInputs, method \in MethodInputs, b \in BodyInputs :
          (Do(url, method, b) /\ ~AbsoluteHTTPURL(url))
              => /\ pc' = "done"
                 /\ ret'.resp.kind = "nil"
                 /\ ret'.err # << >>
                 /\ ret'.err[1].msg = "url validation failed"
                 /\ attempt' = 0
                 /\ NothingAttemptedNext]_vars

C9_Witness ==
    /\ pc = "done" /\ mode = "Do"
    /\ ret.resp.kind = "nil"
    /\ ret.err # << >> /\ ret.err[1].msg = "url validation failed"
    /\ NothingAttempted

\* ------------------------------------------------------------------- C10
InvalidOption(opt) ==
    \/ opt.name = "WithStrategy" /\ ~Recognized(opt.s)
    \/ opt.name = "WithAttempts" /\ opt.n < 1

\* C10: an invalid configuration is rejected without any attempt: an
\* unrecognized strategy or an attempt count below 1 makes New fail (so no
\* client exists to call Do on), and makes BackoffPolicy return an error before
\* its loop; the attempt function is never invoked and nothing is waited for.
C10_InvalidConfigurationRejected ==
    /\ [](/\ pc = "failed" => (newErr # << >> /\ NothingAttempted)
          /\ mode = "Do" => (Recognized(client.strategy) /\ client.attempts >= 1)
          /\ (mode = "direct" /\ (~Recognized(cfg.strategy) \/ cfg.attempts < 1))
                 => (pc = "done" /\ ret.err # << >> /\ NothingAttempted))
    /\ [][pc = "init" => \A opts \in OptionLists :
             (New(opts) /\ \E i \in 1 .. Len(opts) : InvalidOption(opts[i]))
                 => (pc' = "failed" /\ newErr' # << >>)]_vars

C10_Witness ==
    /\ DirectDone /\ cfg.strategy = "Bogus" /\ cfg.attempts = MaxAttempts
    /\ stub = {0}
    /\ ret.err # << >> /\ ret.err[1].msg = "strategy validation failed"
    /\ NothingAttempted

\* ------------------------------------------------------------ C11 .. C19
\* the transport call succeeded with a status in 200 .. 299
ErrorFree2xx(r, e) == e = << >> /\ r.kind = "real" /\ r.status >= 200 /\ r.status <= 299

\* the call is a call of Do that entered the retry loop
InDo == mode = "Do" /\ pc \in {"loop", "transport", "classify", "sleep", "sleeping", "done"}

\* ------------------------------------------------------------------- C11
\* C11: with the default policy and the Linear strategy, when the transport
\* returns a non-2xx outcome on the first k attempts and a 2xx response on
\* attempt k < attempts, and the context is never cancelled, Do returns that 2xx
\* response with a nil error after exactly k+1 transport calls and k waits of
\* baseDelay each; the call goes on to a further attempt only after an outcome
\* that is not an error-free 2xx.
C11_RetriesUntil2xx ==
    /\ (InDo /\ client.policy = "default" /\ pc \in {"sleep", "sleeping", "loop"}
              /\ Len(sent) > 0)
           => ~ErrorFree2xx(resp, terr)
    /\ (InDo /\ client.policy = "default" /\ cfg.strategy = "Linear" /\ ctxErr = ""
              /\ pc = "done" /\ Len(sent) > 0 /\ ErrorFree2xx(resp, terr))
           => /\ ret = [resp |-> resp, err |-> << >>]
              /\ resp.attempt < cfg.attempts
              /\ Len(sent) = resp.attempt + 1
              /\ \A i \in 1 .. Len(sent) : sent[i].attempt = i - 1
              /\ Len(slept) = resp.attempt
              /\ \A i \in 1 .. Len(slept) : slept[i] = client.delay
              /\ \A i \in 1 .. Len(results) : results[i] = (i = Len(results))

C11_Witness ==
    /\ pc = "done" /\ mode = "Do" /\ client.policy = "default"
    /\ cfg.strategy = "Linear" /\ ctxErr = ""
    /\ client.delay = MaxDelay /\ MaxDelay > 0
    /\ resp = RealResp(200, 2) /\ terr = << >>
    /\ ret = [resp |-> RealResp(200, 2), err |-> << >>]
    /\ Len(sent) = 3 /\ slept = << MaxDelay, MaxDelay >>

\* ------------------------------------------------------------------- C12
\* C12: the default policy returns success exactly when the transport error is
\* absent and the status code lies in 200 .. 299 inclusive; every transport
\* error is a failure wrapping that error, whatever the response, and every
\* status below 200 or above 299 is a failure carrying the status code.
C12_DefaultPolicyAccepts2xxOnly ==
    (client.policy = "default" /\ classified = 1)
        => /\ (err = << >>) <=> (terr = << >> /\ resp.status >= 200 /\ resp.status <= 299)
           /\ terr # << >> => err = << [msg |-> "propagating error", n |-> 0] >> \o terr
           /\ (terr = << >> /\ (resp.status < 200 \/ resp.status > 299))
                 => err = << [msg |-> "HTTP response status code outside boundaries",
                              n |-> resp.status] >>
           /\ results = << err = << >> >>
           /\ (pc = "done") <=> (err = << >>)

C12_Witness ==
    /\ classified = 1 /\ client.policy = "default"
    /\ resp = RealResp(299, 0) /\ terr = << >>
    /\ err = << >> /\ results = << TRUE >> /\ pc = "done"

\* ------------------------------------------------------------------- C13
\* C13: when the classifier accepts the outcome of attempt k, Do returns a nil
\* error and the response the transport produced on attempt k, its most recent
\* transport call, never that of an earlier, rejected attempt.
C13_ReturnsAcceptedResponse ==
    (InDo /\ pc = "done" /\ ret.err = << >>)
        => /\ results # << >> /\ results[Len(results)]
           /\ \A i \in 1 .. Len(results) - 1 : ~results[i]
           /\ ret.resp = resp
           /\ sent # << >> /\ sent[Len(sent)].attempt = attempt
           /\ classified = Len(sent)
           /\ ret.resp.kind # "empty"
           /\ ret.resp.kind = "real" => ret.resp.attempt = attempt

C13_Witness ==
    /\ InDo /\ pc = "done" /\ ret.err = << >>
    /\ attempt = 2 /\ results = << FALSE, FALSE, TRUE >>
    /\ ret.resp = RealResp(299, 2)

\* ------------------------------------------------------------------- C14
ExpiredExhausted(e) ==
    << [msg |-> "backoff policy expired", n |-> 0],
       [msg |-> "backoff policy exhausted", n |-> 0] >> \o e

\* the classifier's error for the outcome (r, e) under policy p
C14_Rejection(p, r, e) ==
    IF p = "rejectAll" THEN << [msg |-> "rejected by policy", n |-> 0] >>
    ELSE IF e # << >> THEN << [msg |-> "propagating error", n |-> 0] >> \o e
    ELSE << [msg |-> "HTTP response status code outside boundaries", n |-> r.status] >>

\* C14: when every attempt is rejected by the classifier and the attempt budget
\* runs out, Do returns a nil response and a non-nil error that wraps the
\* classifier's error for the final attempt; and Do never returns a nil error
\* when no attempt was accepted.
C14_ExhaustionReturnsError ==
    /\ (InDo /\ pc = "done" /\ classified > 0 /\ classified = cfg.attempts
              /\ \A i \in 1 .. Len(results) : ~results[i])
           => /\ ret.resp = NilResp
              /\ ret.err = ExpiredExhausted(C14_Rejection(client.policy, resp, terr))
              /\ sent[Len(sent)].attempt = cfg.attempts - 1
    /\ (mode = "Do" /\ pc = "done" /\ (results = << >> \/ ~results[Len(results)]))
           => (ret.err # << >> /\ ret.resp = NilResp)

C14_Witness ==
    /\ InDo /\ pc = "done" /\ client.policy = "default"
    /\ cfg.attempts = 2 /\ classified = 2 /\ results = << FALSE, FALSE >>
    /\ resp = RealResp(300, 1)
    /\ ret.resp = NilResp
    /\ ret.err = ExpiredExhausted(
           << [msg |-> "HTTP response status code outside boundaries", n |-> 300] >>)

\* ------------------------------------------------------------------- C15
\* C15: within one call of Do the transport is invoked with the attempt indices
\* 0, 1, 2, ... in increasing order without gaps or repeats, and the transport
\* call of an attempt starts only when the classifier has returned its verdict
\* on the outcome of every earlier transport call.
C15_AttemptsInOrder ==
    mode = "Do"
        => /\ \A i \in 1 .. Len(sent) : sent[i].attempt = i - 1
           /\ classified = IF pc = "classify" THEN Len(sent) - 1 ELSE Len(sent)
           /\ pc = "transport" => (classified = attempt /\ Len(results) = attempt
                                      /\ \A i \in 1 .. Len(results) : ~results[i])

C15_Witness ==
    /\ mode = "Do" /\ pc = "transport" /\ attempt = 2
    /\ Len(sent) = 2 /\ sent[2].attempt = 1 /\ classified = 2

\* ------------------------------------------------------------------- C16
\* what a call of Do with the locals c, run as call id, owes to nothing but its
\* own arguments and its own transport outcomes
C16_OwnState(c, id) ==
    /\ c.resp.kind = "real"
          => (c.resp.status \in {200 + id, 500 + id} /\ c.resp.attempt = Len(c.sent) - 1)
    /\ c.ret.resp.kind = "real" => c.ret.resp.status = 200 + id
    /\ c.attempt = Len(c.slept) - (IF c.pc = "sleeping" THEN 1 ELSE 0)
    /\ \A i \in 1 .. Len(c.sent) : c.sent[i].attempt = i - 1 /\ c.sent[i].body = c.body
    /\ c.bodyPos <= Len(c.body)
    /\ c.pc = "transport" => c.bodyPos = 0
    /\ c.pc \in {"idle", "loop", "transport", "classify", "sleep", "sleeping"}
          => c.ret = [resp |-> [kind |-> "nil", status |-> 0, attempt |-> 0], err |-> << >>]
    /\ (c.pc = "done" /\ c.ret.err = << >>)
          => (c.ret.resp = c.resp /\ c.terr = << >> /\ c.results[Len(c.results)])

\* C16: two calls of Do on one client, interleaved in any way, are independent:
\* each call's attempt counter, body position, last response and result come
\* from its own arguments and transport outcomes, a step of one call leaves the
\* other call's state as it was, and no step changes the client's configuration.
C16_ConcurrentCallsIndependent ==
    /\ [](C16_OwnState(Locals, self) /\ C16_OwnState(peer, 3 - self))
    /\ [][client' = client /\ (self' = self => peer' = peer)]_vars

\* both calls under way: call 2 has its second answer to classify while call 1
\* sleeps after its first
C16_Witness ==
    /\ self = 2 /\ pc = "classify" /\ attempt = 1 /\ resp = RealResp(202, 1)
    /\ peer.pc = "sleeping" /\ peer.attempt = 0 /\ peer.resp = RealResp(501, 0)
    /\ peer.body # body /\ bodyPos # peer.bodyPos

\* ------------------------------------------------------------------- C17
\* C17 as stated: a wait between attempts during which the context is cancelled
\* ends on the cancellation instead of running for its full computed duration,
\* and after a wait the pre-attempt check comes first: nothing is sent to the
\* transport once the check has the cancelled context to find.
C17_WaitEndsOnCancellation ==
    [][/\ (mode = "Do" /\ pc = "sleeping" /\ pc' = "loop"
              /\ sleepCtx = "" /\ ctxErr # "" /\ slept[Len(slept)] > 0)
             => waited' - waited < slept[Len(slept)]
       /\ (mode = "Do" /\ pc = "sleeping" /\ pc' # "sleeping")
             => (pc' = "loop" /\ sent' = sent)
       /\ (mode = "Do" /\ pc = "loop" /\ ctxErr # "" /\ pc' # "loop")
             => (pc' # "transport" /\ sent' = sent)]_vars

\* ------------------------------------------------------------------- C18
\* C18: whatever the classifier, the transport outcomes and the moment of a
\* cancellation, a call of Do invokes the transport at most attempts times and
\* the classifier exactly once per transport call, and, every transport call,
\* classifier call and sleep returning, the call of Do returns.
C18_BoundedAndTerminates ==
    /\ [](mode = "Do" => /\ Len(sent) <= cfg.attempts
                         /\ Len(invoked) <= cfg.attempts
                         /\ classified <= Len(sent)
                         /\ classified >= Len(sent) - 1
                         /\ pc \notin {"transport", "classify"} => classified = Len(sent))
    /\ (mode = "Do") ~> (pc = "done")

C18_Witness ==
    /\ mode = "Do" /\ pc = "done" /\ client.policy = "rejectAll"
    /\ cfg.attempts = MaxAttempts /\ Len(sent) = MaxAttempts /\ classified = MaxAttempts
    /\ ctxErr # ""

\* ------------------------------------------------------------------- C19
\* C19 as stated: for any classifier, one that accepts a failed transport call
\* included, Do never returns both a nil response and a nil error: with a nil
\* error the response is a real one produced by a successful transport call.
C19_NeverNilResponseAndNilError ==
    (mode = "Do" /\ pc = "done" /\ ret.err = << >>)
        => (ret.resp.kind = "real" /\ terr = << >>)

\* ------------------------------------------------------------------- C20
Negative64(x) == x[64] = 1

\* x <= y as signed 64-bit numbers
LessEq64(x, y) ==
    IF x[64] # y[64] THEN x[64] = 1
    ELSE \/ x = y
         \/ \E i \in 1 .. 63 : x[i] < y[i] /\ \A j \in (i + 1) .. 63 : x[j] = y[j]

\* C20 as stated: under the Exponential strategy, for every accepted attempt
\* count and non-negative base delay, the waits delay * 2^attempt computed in
\* 64-bit signed arithmetic are never negative and never decrease from one
\* retry to the next.
C20_WaitsNeverWrap ==
    /\ ~Negative64(dur.cur)
    /\ dur.attempt >= 2 => LessEq64(dur.prev, dur.cur)

====
